---- MODULE Spec2Model ----
(***************************************************************************)
(* Model of CBlock (src/CBlock.cpp): one puzzle piece or barrier on a      *)
(* grid, its gesture handlers (press, move, wheel, release), the snap to   *)
(* the grid and the collision query against the shared block list.         *)
(*                                                                         *)
(* Coordinates.  A polygon is a sequence of points <<x, y>> in unscaled    *)
(* local coordinates (one cell = one unit).  A position is a point in      *)
(* pixels.  checkCollision works on paths in board coordinates             *)
(* (local + pos / m_nGrid); the model carries those paths multiplied by    *)
(* the grid of the block that runs the query, so that pos / m_nGrid needs  *)
(* no fractions: a board path is the sequence of its points times m_nGrid. *)
(***************************************************************************)
EXTENDS Integers, Sequences, FiniteSets, TLC

(***************************************************************************)
(* Bounds of the model.                                                    *)
(***************************************************************************)
\* grid sizes a board is built with: 1..MaxGrid
MaxGrid == 2
\* the pointer reaches the cells 0..MaxCell+1 of the scene of one row (the
\* square scene has the cells 0..1 of each axis)
MaxCell == 1

(***************************************************************************)
(* The board: the blocks in the shared list, their ids, barrier flags and  *)
(* the shapes and cells they are constructed with.                         *)
(***************************************************************************)
Blocks == {1, 2, 3}

\* the puzzles a board is set up with: "solo" is an L-shaped piece (block 1)
\* between two barriers on a square scene, "pair" a barrier (block 1) and two
\* square pieces in one row
Puzzles == {"solo", "pair"}

\* *m_pListBlocks: every block of the board, in creation order
m_pListBlocks == <<1, 2, 3>>

\* m_nID: the id each block was constructed with
m_nID == [b \in Blocks |-> 10 + b]

\* bBarrier of each block
StartBarrier(puzzle) ==
    [b \in Blocks |-> IF puzzle = "solo" THEN b \in {2, 3} ELSE b = 1]

Buttons == {"Left", "Right", "Middle"}
Orientations == {"Vertical", "Horizontal"}
Deltas == {0 - 120, 120}

\* closed polygons handed to the constructor
\* (an L two cells wide and three high, anchored at the origin or one cell
\* to its right, and a unit square)
ShapeL == << <<0, 0>>, <<1, 0>>, <<1, 2>>, <<2, 2>>, <<2, 3>>, <<0, 3>>, <<0, 0>> >>
ShapeLOffset == << <<1, 0>>, <<2, 0>>, <<2, 2>>, <<3, 2>>, <<3, 3>>, <<1, 3>>, <<1, 0>> >>
ShapeSquare == << <<0, 0>>, <<1, 0>>, <<1, 1>>, <<0, 1>>, <<0, 0>> >>

\* shape of each block: the L of "solo" comes with either anchoring
StartShapes(puzzle) ==
    IF puzzle = "solo"
    THEN {[b \in Blocks |-> IF b = 1 THEN s ELSE ShapeSquare] :
             s \in {ShapeL, ShapeLOffset}}
    ELSE {[b \in Blocks |-> ShapeSquare]}

\* posTopLeft of each block, in cells: no two blocks overlap; the L has one
\* barrier in its notch and one to its right, the row has a free cell
\* between its pieces and the barrier at its end
StartCell(puzzle, shapes) ==
    IF puzzle = "solo"
    THEN [b \in Blocks |-> CASE b = 1 -> <<0 - shapes[1][1][1], 0>>
                             [] b = 2 -> <<1, 0>>
                             [] OTHER -> <<2, 2>>]
    ELSE [b \in Blocks |-> CASE b = 1 -> <<MaxCell + 2, 0>>
                             [] b = 2 -> <<0, 0>>
                             [] OTHER -> <<MaxCell + 1, 0>>]

\* the last cell of each axis the pointer reaches
SceneCells(puzzle) ==
    IF puzzle = "solo" THEN <<1, 1>> ELSE <<MaxCell + 1, 0>>

\* the blocks wheel steps and Right presses are aimed at: the L of "solo",
\* the barrier of "pair"
Turnable == {1}

\* the blocks rescaleBlock and setNewZValue are called on from outside, and
\* the values setNewZValue is called with
Rescalable == {1}
Stackable == {3}
StackingValues == {0 - 1, 0, 2}

VARIABLES
    m_PolyShape,         \* [Blocks -> polygon]
    pos,                 \* [Blocks -> point], QGraphicsItem::pos() in pixels
    zValue,              \* [Blocks -> Int], QGraphicsItem::zValue()
    m_bMousePressed,     \* [Blocks -> BOOLEAN]
    m_posBlockSelected,  \* [Blocks -> point]
    m_nGrid,             \* [Blocks -> grid size]
    m_bBarrier,          \* [Blocks -> BOOLEAN]
    scene,               \* the last cell of each axis the pointer reaches
    lastBlock,           \* the block that handled the last gesture, 0 at first
    emitted,             \* the signals the last handler emitted, in order
    posAtPress,          \* history: pos of the block at its last Left press
    handled              \* history: what the last handler did to pos() and
                         \* the signals, in order, with pos() after each

vars == <<m_PolyShape, pos, zValue, m_bMousePressed, m_posBlockSelected,
          m_nGrid, m_bBarrier, scene, lastBlock, emitted, posAtPress, handled>>

(***************************************************************************)
(* Numbers.                                                                *)
(***************************************************************************)
Min2(a, b) == IF a <= b THEN a ELSE b
Max2(a, b) == IF a >= b THEN a ELSE b

SetMin(S) == CHOOSE m \in S : \A n \in S : m <= n
SetMax(S) == CHOOSE m \in S : \A n \in S : m >= n

\* qRound(num / den) for den > 0: int(d + 0.5) when d >= 0 and
\* int(d - int(d-1) + 0.5) + int(d-1) otherwise, which both are floor(d + 1/2)
qRound(num, den) == (2 * num + den) \div (2 * den)

(***************************************************************************)
(* Polygons.                                                               *)
(***************************************************************************)
\* QPolygonF::boundingRect
boundingRect(poly) ==
    LET xs == {poly[i][1] : i \in DOMAIN poly}
        ys == {poly[i][2] : i \in DOMAIN poly}
    IN  \* left and top edge, then the size
        (LET x == SetMin(xs)
             y == SetMin(ys)
         IN  [x |-> x, y |-> y, width |-> SetMax(xs) - x, height |-> SetMax(ys) - y])

\* QTransform::map of a polygon by the matrix (m11 m12 / m21 m22)
MapPolygon(t, poly) ==
    [i \in DOMAIN poly |-> <<t.m11 * poly[i][1] + t.m21 * poly[i][2],
                             t.m12 * poly[i][1] + t.m22 * poly[i][2]>>]

\* QPolygonF::translate
Translate(poly, dx, dy) ==
    [i \in DOMAIN poly |-> <<poly[i][1] + dx, poly[i][2] + dy>>]

\* QTransform::fromScale(sx, sy)
fromScale(sx, sy) == [m11 |-> sx, m12 |-> 0, m21 |-> 0, m22 |-> sy]

\* QTransform::rotate(a) on the identity, a = 90 or -90 (sin and cos exact)
rotate(a) ==
    LET sina == IF a = 90 THEN 1 ELSE 0 - 1
    IN  [m11 |-> 0, m12 |-> sina, m21 |-> 0 - sina, m22 |-> 0]

\* Flip changed to anchor the mirrored shape at x = 0
Flip_Anchored(poly) ==
    LET mapped == MapPolygon(fromScale(0 - 1, 1), poly)
    IN  Translate(mapped, 0 - boundingRect(mapped).x, 0)

\* Flip changed to mirror the shape and leave it where the mirror put it
Flip_NoMoveBack(poly) == MapPolygon(fromScale(0 - 1, 1), poly)

\* the flip of mousePressEvent: mirror, then move back by the bounding width
Flip(poly) ==
    LET mapped == MapPolygon(fromScale(0 - 1, 1), poly)
    IN  Translate(mapped, boundingRect(mapped).width, 0)

\* Rotated changed to turn by the angle a transform that is not reset has
\* on its second use: a half turn
Rotated_HalfTurn(poly, delta) ==
    LET nTranslateX == IF delta < 0 THEN boundingRect(poly).height ELSE 0
        nTranslateY == IF delta < 0 THEN 0 ELSE boundingRect(poly).width
    IN  Translate(MapPolygon(fromScale(0 - 1, 0 - 1), poly), nTranslateX, nTranslateY)

\* Rotated changed to turn the other way for either delta
Rotated_OtherWay(poly, delta) ==
    LET nAngle == IF delta < 0 THEN 0 - 90 ELSE 90
        nTranslateX == IF delta < 0 THEN boundingRect(poly).height ELSE 0
        nTranslateY == IF delta < 0 THEN 0 ELSE boundingRect(poly).width
    IN  Translate(MapPolygon(rotate(nAngle), poly), nTranslateX, nTranslateY)

\* the rotation of wheelEvent for a vertical wheel step of the given delta
\* (the bounding sizes are whole numbers, which the qint32 locals keep)
Rotated(poly, delta) ==
    LET nAngle == IF delta < 0 THEN 90 ELSE 0 - 90
        nTranslateX == IF delta < 0 THEN boundingRect(poly).height ELSE 0
        nTranslateY == IF delta < 0 THEN 0 ELSE boundingRect(poly).width
    IN  Translate(MapPolygon(rotate(nAngle), poly), nTranslateX, nTranslateY)

(***************************************************************************)
(* Painter paths.  Every polygon of the model has its points on the        *)
(* integer lattice and its edges along the axes.  A QPainterPath is        *)
(* modelled by the area it fills: a set of unit cells <<cx, cy>> (the      *)
(* square from (cx, cy) to (cx+1, cy+1)).                                  *)
(***************************************************************************)
\* the vertical edges of the polygon (closed by an edge from its last point
\* to its first), each as <<index, x, lowest y, highest y>>
VerticalEdges(poly) ==
    LET n == Len(poly)
        next(i) == IF i = n THEN 1 ELSE i + 1
    IN  {<<i, poly[i][1], Min2(poly[i][2], poly[next(i)][2]),
                          Max2(poly[i][2], poly[next(i)][2])>> :
            i \in {k \in 1..n : poly[k][1] = poly[next(k)][1]}}

\* the cell lies inside under the odd-even fill rule: a ray from it to the
\* left crosses an odd number of the edges
InsideCell(edges, cx, cy) ==
    Cardinality({e \in edges : e[2] <= cx /\ e[3] <= cy /\ cy + 1 <= e[4]}) % 2 = 1

\* CBlock::shape: the path addPolygon makes of the polygon
PathCells(poly) ==
    LET r == boundingRect(poly)
        edges == VerticalEdges(poly)
    IN  {c \in (r.x .. r.x + r.width - 1) \X (r.y .. r.y + r.height - 1) :
            InsideCell(edges, c[1], c[2])}

\* polygon scaled by k and moved by the point p
Placed(poly, k, p) ==
    [i \in DOMAIN poly |-> <<k * poly[i][1] + p[1], k * poly[i][2] + p[2]>>]

\* path scaled by k and moved by the point p: every cell becomes k by k cells
PlacedPath(path, k, p) ==
    {<<k * c[1] + p[1] + i, k * c[2] + p[2] + j>> :
        c \in path, i \in 0..(k - 1), j \in 0..(k - 1)}

\* QPainterPath::intersected followed by simplified: the common filled area
IntersectedSimplified(pathA, pathB) == pathA \cap pathB

\* boundingRect().size() of a path
BoundingSize(path) ==
    IF path = {} THEN [width |-> 0, height |-> 0]
    ELSE LET xs == {c[1] : c \in path}
             ys == {c[2] : c \in path}
         IN  [width |-> SetMax(xs) + 1 - SetMin(xs),
              height |-> SetMax(ys) + 1 - SetMin(ys)]

\* QSizeF::isEmpty
isEmpty(size) == size.width <= 0 \/ size.height <= 0

\* QRectF::intersects: the rectangles share an area, touching is not enough
RectIntersects(r1, r2) ==
    /\ r1.x < r2.x + r2.width
    /\ r2.x < r1.x + r1.width
    /\ r1.y < r2.y + r2.height
    /\ r2.y < r1.y + r1.height

\* QPainterPath::intersects: the closed areas share a point (a common cell,
\* edge piece or corner), i.e. two of their cells are equal or neighbours
PathIntersects(pathA, pathB) ==
    LET around == {<<c[1] + i, c[2] + j>> : c \in pathA, i \in {0 - 1, 0, 1},
                                           j \in {0 - 1, 0, 1}}
    IN  around \cap pathB # {}

(***************************************************************************)
(* CBlock's own helpers.                                                   *)
(***************************************************************************)
\* snapToGrid changed to leave out the multiplication by the grid
snapToGrid_NoScale(point, grid) == <<qRound(point[1], grid), qRound(point[2], grid)>>

\* CBlock::snapToGrid with m_nGrid = grid
snapToGrid(point, grid) ==
    LET x == qRound(point[1], grid) * grid
        y == qRound(point[2], grid) * grid
    IN  <<x, y>>

\* CBlock::moveBlockGrid: the position of a block put on the cell
moveBlockGrid(cell, grid) == <<cell[1] * grid, cell[2] * grid>>

\* setNewZValue changed to leave the z value alone for a negative nZ
setNewZValue_Keep(z, nZ) == IF nZ < 0 THEN z ELSE nZ

\* setNewZValue changed to lower the z value without the test against 1
setNewZValue_NoFloor(z, nZ) == IF nZ < 0 THEN z - 1 ELSE nZ

\* CBlock::setNewZValue: the new z value of a block whose z value is z
setNewZValue(z, nZ) ==
    IF nZ < 0
    THEN IF z > 1 THEN z - 1 ELSE 1
    ELSE nZ

\* the loop of mousePressEvent over the list, from index k on
RECURSIVE LowerAll(_, _)
LowerAll(z, k) ==
    IF k > Len(m_pListBlocks) THEN z
    ELSE LowerAll([z EXCEPT ![m_pListBlocks[k]] = setNewZValue(@, 0 - 1)], k + 1)

\* boundingRect() of block j as the scene sees it: scaled by its grid, at P[j]
SceneBoundingRect(j, P) == boundingRect(Placed(m_PolyShape[j], m_nGrid[j], P[j]))

\* shape() of block j as the scene sees it
SceneShape(j, P) == PlacedPath(PathCells(m_PolyShape[j]), m_nGrid[j], P[j])

\* collidesWithItem changed to compare the items without their scale
collidesWithItem_Unscaled(b, j, P) ==
    \/ j = b
    \/ /\ RectIntersects(boundingRect(Placed(m_PolyShape[b], 1, P[b])),
                         boundingRect(Placed(m_PolyShape[j], 1, P[j])))
       /\ PathIntersects(PlacedPath(PathCells(m_PolyShape[j]), 1, P[j]),
                         PlacedPath(PathCells(m_PolyShape[b]), 1, P[b]))

\* QGraphicsItem::collidesWithItem(block) called on b, positions P:
\* the bounding rectangles intersect and the shapes intersect
collidesWithItem(b, j, P) ==
    \/ j = b
    \/ /\ RectIntersects(SceneBoundingRect(b, P), SceneBoundingRect(j, P))
       /\ PathIntersects(SceneShape(j, P), SceneShape(b, P))

\* shape() of b translated by pos / m_nGrid, as mouseReleaseEvent builds it
\* (a board path, carried times m_nGrid[b])
ThisPath(b, P) == PlacedPath(PathCells(m_PolyShape[b]), m_nGrid[b], P[b])

\* block->shape() translated by block->pos() / m_nGrid, m_nGrid being b's
CollidingPath(b, j, P) == PlacedPath(PathCells(m_PolyShape[j]), m_nGrid[b], P[j])

\* CollidesWith changed to leave out the id test
CollidesWith_NoId(b, j, thisPath, P) ==
    /\ collidesWithItem(b, j, P)
    /\ ~isEmpty(BoundingSize(IntersectedSimplified(thisPath, CollidingPath(b, j, P))))

\* CollidesWith changed to trust collidesWithItem alone
CollidesWith_Broad(b, j, thisPath, P) ==
    /\ m_nID[j] # m_nID[b]
    /\ collidesWithItem(b, j, P)

\* the test checkCollision makes for one block of the list
CollidesWith(b, j, thisPath, P) ==
    /\ m_nID[j] # m_nID[b]
    /\ collidesWithItem(b, j, P)
    /\ ~isEmpty(BoundingSize(IntersectedSimplified(thisPath, CollidingPath(b, j, P))))

\* CBlock::checkCollision(thisPath) called on b while the positions are P
checkCollision(b, thisPath, P) ==
    \E k \in 1..Len(m_pListBlocks) : CollidesWith(b, m_pListBlocks[k], thisPath, P)

(***************************************************************************)
(* Gestures.                                                               *)
(***************************************************************************)
\* the mouse is not held on another block (one pointer: the block that took
\* a press receives everything up to the release)
MouseFree(b) == \A c \in Blocks \ {b} : ~m_bMousePressed[c]

\* pixel positions one move of the pointer can bring block b to: a pixel to
\* either side along an axis, from half a cell left of and above the scene
\* to its last cell, and never farther outside of that than the block is
DragTargets(b) ==
    LET g == m_nGrid[b]
        x == pos[b][1]
        y == pos[b][2]
    IN  {p \in {<<x - 1, y>>, <<x + 1, y>>, <<x, y - 1>>, <<x, y + 1>>} :
            /\ Min2(0 - (g \div 2), x) <= p[1] /\ p[1] <= Max2(scene[1] * g, x)
            /\ Min2(0 - (g \div 2), y) <= p[2] /\ p[2] <= Max2(scene[2] * g, y)}

Init ==
    /\ \E puzzle \in Puzzles, g \in 1..MaxGrid :
         /\ m_nGrid = [b \in Blocks |-> g]
         /\ m_PolyShape \in StartShapes(puzzle)
         /\ pos = [b \in Blocks |->
                     moveBlockGrid(StartCell(puzzle, m_PolyShape)[b], g)]
         /\ m_bBarrier = StartBarrier(puzzle)
         /\ scene = SceneCells(puzzle)
    /\ zValue = [b \in Blocks |-> 0]
    /\ m_bMousePressed = [b \in Blocks |-> FALSE]
    /\ m_posBlockSelected = [b \in Blocks |-> <<0, 0>>]
    /\ posAtPress = [b \in Blocks |-> <<0, 0>>]
    /\ lastBlock = 0
    /\ emitted = <<>>
    /\ handled = <<>>

\* FlipPress changed to leave out the barrier test
FlipPress_NoBarrier(b, button) == button = "Right"

\* MovePress changed to take either button for the start of a drag
MovePress_AnyButton(b, button) == button \in {"Left", "Right"} /\ ~m_bBarrier[b]

\* MovePress changed to leave out the barrier test
MovePress_Barrier(b, button) == button = "Left"

\* the tests the handlers make on the gesture and the barrier flag
MovePress(b, button) == button = "Left" /\ ~m_bBarrier[b]
FlipPress(b, button) == button = "Right" /\ ~m_bBarrier[b]
WheelTurns(b, orientation) == orientation = "Vertical" /\ ~m_bBarrier[b]
ReleaseDrop(b, button) == button = "Left" /\ ~m_bBarrier[b]

\* CBlock::mousePressEvent
mousePressEvent(b, button) ==
    /\ MouseFree(b)
    /\ button = "Left" => ~m_bMousePressed[b]
    /\ button = "Right" => b \in Turnable
    /\ IF MovePress(b, button)
       THEN /\ m_bMousePressed' = [m_bMousePressed EXCEPT ![b] = TRUE]
            /\ zValue' = [LowerAll(zValue, 1) EXCEPT ![b] = Len(m_pListBlocks) + 2]
            /\ m_posBlockSelected' = [m_posBlockSelected EXCEPT ![b] = pos[b]]
            /\ posAtPress' = [posAtPress EXCEPT ![b] = pos[b]]
            /\ UNCHANGED m_PolyShape
       ELSE IF FlipPress(b, button)
       THEN /\ m_PolyShape' = [m_PolyShape EXCEPT ![b] = Flip(@)]
            /\ UNCHANGED <<m_bMousePressed, zValue, m_posBlockSelected, posAtPress>>
       ELSE UNCHANGED <<m_PolyShape, m_bMousePressed, zValue, m_posBlockSelected,
                        posAtPress>>
    /\ lastBlock' = b
    /\ emitted' = <<>>
    /\ handled' = <<>>
    /\ UNCHANGED <<pos, m_nGrid, m_bBarrier, scene>>

\* QGraphicsItem::mouseMoveEvent of a movable item while the Left button is
\* held: the item follows the pointer to p
mouseMoveEvent(b, p) ==
    /\ ~m_bBarrier[b]
    /\ m_bMousePressed[b]
    /\ pos' = [pos EXCEPT ![b] = p]
    /\ lastBlock' = b
    /\ emitted' = <<>>
    /\ handled' = <<>>
    /\ UNCHANGED <<m_PolyShape, zValue, m_bMousePressed, m_posBlockSelected,
                   m_nGrid, m_bBarrier, scene, posAtPress>>

\* CBlock::wheelEvent
wheelEvent(b, orientation, delta) ==
    /\ b \in Turnable
    /\ IF WheelTurns(b, orientation)
       THEN m_PolyShape' = [m_PolyShape EXCEPT ![b] = Rotated(@, delta)]
       ELSE UNCHANGED m_PolyShape
    /\ lastBlock' = b
    /\ emitted' = <<>>
    /\ handled' = <<>>
    /\ UNCHANGED <<pos, zValue, m_bMousePressed, m_posBlockSelected, m_nGrid,
                   m_bBarrier, scene, posAtPress>>

\* SnappedPos changed to leave out the snap
SnappedPos_NoSnap(b) == pos

\* the positions after the first setPos of mouseReleaseEvent (the snap)
SnappedPos(b) == [pos EXCEPT ![b] = snapToGrid(pos[b], m_nGrid[b])]

\* ReleaseCollides changed to make the check before the snap
ReleaseCollides_Unsnapped(b) == checkCollision(b, ThisPath(b, pos), pos)

\* the outcome of the collision check mouseReleaseEvent makes for b
ReleaseCollides(b) == checkCollision(b, ThisPath(b, SnappedPos(b)), SnappedPos(b))

\* RevertPos changed to leave the block where it was dropped
RevertPos_Stay(b) == snapToGrid(pos[b], m_nGrid[b])

\* ReleaseSignals changed to count a move only when it is kept
ReleaseSignals_CountKept(collides) ==
    IF collides THEN <<>>
    ELSE <<"incrementMoves", "checkPuzzleSolved">>

\* ReleaseSignals changed to ask for the solved check after every release
ReleaseSignals_AlwaysCheck(collides) == <<"incrementMoves", "checkPuzzleSolved">>

\* the position mouseReleaseEvent resets b to after a collision
RevertPos(b) == snapToGrid(m_posBlockSelected[b], m_nGrid[b])

\* the signals mouseReleaseEvent emits, in order
ReleaseSignals(collides) ==
    IF collides THEN <<"incrementMoves">>
    ELSE <<"incrementMoves", "checkPuzzleSolved">>

\* what mouseReleaseEvent does to pos() and the signals, statement by
\* statement, each with pos() of the block after it: the snap, the count of
\* the move, the collision check, then the reset or the solved check
ReleaseTrace(b, collides) ==
    LET snapped == SnappedPos(b)[b]
    IN  << [op |-> "setPos", at |-> snapped],
           [op |-> "incrementMoves", at |-> snapped],
           [op |-> "checkCollision", at |-> snapped],
           IF collides THEN [op |-> "setPos", at |-> RevertPos(b)]
                       ELSE [op |-> "checkPuzzleSolved", at |-> snapped] >>

\* CBlock::mouseReleaseEvent
mouseReleaseEvent(b, button) ==
    /\ MouseFree(b)
    /\ (button = "Left" /\ ~m_bBarrier[b]) => m_bMousePressed[b]
    /\ IF ReleaseDrop(b, button)
       THEN /\ m_bMousePressed' = [m_bMousePressed EXCEPT ![b] = FALSE]
            /\ \E collides \in {ReleaseCollides(b)} :
                  /\ pos' = IF collides
                            THEN [SnappedPos(b) EXCEPT ![b] = RevertPos(b)]
                            ELSE SnappedPos(b)
                  /\ emitted' = ReleaseSignals(collides)
                  /\ handled' = ReleaseTrace(b, collides)
       ELSE /\ UNCHANGED <<m_bMousePressed, pos>>
            /\ emitted' = <<>>
            /\ handled' = <<>>
    /\ lastBlock' = b
    /\ UNCHANGED <<m_PolyShape, zValue, m_posBlockSelected, m_nGrid, m_bBarrier,
                   scene, posAtPress>>

\* rescaleBlock changed to snap before m_nGrid is set to the new scale
RescaledPos_OldGrid(point, grid, nNewScale) ==
    <<qRound(point[1] * nNewScale, grid * grid) * grid,
      qRound(point[2] * nNewScale, grid * grid) * grid>>

\* the position rescaleBlock sets: tmpTopLeft = point / grid * nNewScale,
\* snapped by snapToGrid with m_nGrid = nNewScale (tmpTopLeft / nNewScale is
\* the fraction point * nNewScale / (grid * nNewScale))
RescaledPos(point, grid, nNewScale) ==
    <<qRound(point[1] * nNewScale, grid * nNewScale) * nNewScale,
      qRound(point[2] * nNewScale, grid * nNewScale) * nNewScale>>

\* the position stored at the press of b lies within the scene at the
\* scale, or up to a cell left of or above it
InScene(b, nNewScale) ==
    \A i \in 1..2 :
       /\ 0 - nNewScale <= m_posBlockSelected[b][i]
       /\ m_posBlockSelected[b][i] <= scene[i] * nNewScale

\* CBlock::rescaleBlock (during a drag the model takes the call only while
\* the stored position stays within the scene, which keeps the positions a
\* reset can lead to bounded)
rescaleBlock(b, nNewScale) ==
    /\ b \in Rescalable
    /\ m_bMousePressed[b] => InScene(b, nNewScale)
    /\ pos' = [pos EXCEPT ![b] = RescaledPos(@, m_nGrid[b], nNewScale)]
    /\ m_nGrid' = [m_nGrid EXCEPT ![b] = nNewScale]
    /\ lastBlock' = b
    /\ emitted' = <<>>
    /\ handled' = <<>>
    /\ UNCHANGED <<m_PolyShape, zValue, m_bMousePressed, m_posBlockSelected,
                   m_bBarrier, scene, posAtPress>>

\* CBlock::setNewZValue called on block b by the owner of the list
setNewZValueCall(b, nZ) ==
    /\ b \in Stackable
    /\ zValue' = [zValue EXCEPT ![b] = setNewZValue(@, nZ)]
    /\ lastBlock' = b
    /\ emitted' = <<>>
    /\ handled' = <<>>
    /\ UNCHANGED <<m_PolyShape, pos, m_bMousePressed, m_posBlockSelected, m_nGrid,
                   m_bBarrier, scene, posAtPress>>

Next ==
    \/ \E b \in Blocks, button \in Buttons : mousePressEvent(b, button)
    \/ \E b \in Blocks : \E p \in DragTargets(b) : mouseMoveEvent(b, p)
    \/ \E b \in Blocks, o \in Orientations, d \in Deltas : wheelEvent(b, o, d)
    \/ \E b \in Blocks, button \in Buttons : mouseReleaseEvent(b, button)

Spec == Init /\ [][Next]_vars

\* the gestures together with the calls the owner of the blocks makes
NextBoard ==
    \/ Next
    \/ \E b \in Blocks, nNewScale \in 1..MaxGrid : rescaleBlock(b, nNewScale)
    \/ \E b \in Blocks, nZ \in StackingValues : setNewZValueCall(b, nZ)

\* a board built with one pixel to the cell, which rescaleBlock then changes
InitBoard == Init /\ m_nGrid = [b \in Blocks |-> 1]

SpecBoard == InitBoard /\ [][NextBoard]_vars

(***************************************************************************)
(* Properties.                                                             *)
(***************************************************************************)
\* how often a signal is in a sequence of signals
Count(seq, sig) == Cardinality({i \in DOMAIN seq : seq[i] = sig})

\* a step is a Left release handled by the non-barrier block b
LeftReleaseStep(b) == ~m_bBarrier[b] /\ mouseReleaseEvent(b, "Left")

\* block j is another block than b
Other(b, j) == j # b

\* the path of b after the snap and the paths of the others, as the
\* collision check of a release of b sees them
Candidate(b) == ThisPath(b, SnappedPos(b))
Peer(b, j) == CollidingPath(b, j, SnappedPos(b))

\* two paths share area
SharesArea(pathA, pathB) == pathA \cap pathB # {}

\* two paths touch along an edge or at a point and share no area
TouchOnly(pathA, pathB) == ~SharesArea(pathA, pathB) /\ PathIntersects(pathA, pathB)

\* C1: a Left release handled by a non-barrier block emits incrementMoves
\* exactly once, whether the collision check finds a collision or not, and
\* no other step emits it.
C1_MoveCountedOncePerRelease ==
    [][ /\ \A b \in Blocks :
             LeftReleaseStep(b) => Count(emitted', "incrementMoves") = 1
        /\ (\A b \in Blocks : ~LeftReleaseStep(b))
             => Count(emitted', "incrementMoves") = 0 ]_vars

\* a release that ended in a collision has emitted incrementMoves alone
C1_Witness ==
    /\ lastBlock \in Blocks
    /\ ~m_bBarrier[lastBlock]
    /\ emitted = <<"incrementMoves">>

\* C2: a Left release handled by a non-barrier block emits checkPuzzleSolved
\* if and only if checkCollision on the snapped position returns false.
C2_SolvedCheckIffNoCollision ==
    [][ \A b \in Blocks :
          LeftReleaseStep(b) =>
            /\ ReleaseCollides(b) => Count(emitted', "checkPuzzleSolved") = 0
            /\ ~ReleaseCollides(b) => Count(emitted', "checkPuzzleSolved") = 1 ]_vars

\* a release without collision has emitted checkPuzzleSolved
C2_Witness ==
    /\ lastBlock \in Blocks
    /\ ~m_bBarrier[lastBlock]
    /\ emitted = <<"incrementMoves", "checkPuzzleSolved">>

\* C3: after a Left release of a non-barrier block that found a collision
\* the block is at snapToGrid of the position it had at its last Left press.
C3_RollbackToPressPosition ==
    [][ \A b \in Blocks :
          (LeftReleaseStep(b) /\ ReleaseCollides(b)) =>
             pos'[b] = snapToGrid(posAtPress[b], m_nGrid[b]) ]_vars

\* a block that was pressed away from the origin is back there after a
\* release that found a collision
C3_Witness ==
    /\ lastBlock \in Blocks
    /\ emitted = <<"incrementMoves">>
    /\ posAtPress[lastBlock] # <<0, 0>>
    /\ pos[lastBlock] = snapToGrid(posAtPress[lastBlock], m_nGrid[lastBlock])

\* C4: after a Left release of a non-barrier block that found no collision
\* the block is at snapToGrid of the position it was dragged to, and the
\* positions and shapes of all other blocks are as before.
C4_CommitKeepsSnappedDrop ==
    [][ \A b \in Blocks :
          (LeftReleaseStep(b) /\ ~ReleaseCollides(b)) =>
             /\ pos'[b] = snapToGrid(pos[b], m_nGrid[b])
             /\ \A j \in Blocks :
                  Other(b, j) => /\ pos'[j] = pos[j]
                                 /\ m_PolyShape'[j] = m_PolyShape[j] ]_vars

\* a block was released without collision on a cell other than the one it
\* was pressed on
C4_Witness ==
    /\ lastBlock \in Blocks
    /\ emitted = <<"incrementMoves", "checkPuzzleSolved">>
    /\ pos[lastBlock] # posAtPress[lastBlock]
    /\ pos[lastBlock] = snapToGrid(pos[lastBlock], m_nGrid[lastBlock])

\* C5: a block whose path only touches the path of another block (a shared
\* edge or a point, no shared area) is not reported as colliding with it, and
\* a release on a position where every other block is apart or only touching
\* is not reverted.
C5_TouchingIsNoCollision ==
    [][ \A b \in Blocks :
          LeftReleaseStep(b) =>
            /\ \A j \in Blocks :
                 TouchOnly(Candidate(b), Peer(b, j))
                   => ~CollidesWith(b, j, Candidate(b), SnappedPos(b))
            /\ (\A j \in Blocks : Other(b, j) => ~SharesArea(Candidate(b), Peer(b, j)))
                 => pos'[b] = snapToGrid(pos[b], m_nGrid[b]) ]_vars

\* a block was released, and stays, on a new cell where it touches another
\* block whose bounding rectangle overlaps its own
C5_Witness ==
    /\ lastBlock \in Blocks
    /\ emitted = <<"incrementMoves", "checkPuzzleSolved">>
    /\ pos[lastBlock] # posAtPress[lastBlock]
    /\ \E j \in Blocks :
         /\ TouchOnly(ThisPath(lastBlock, pos), CollidingPath(lastBlock, j, pos))
         /\ collidesWithItem(lastBlock, j, pos)

\* C6: the block itself is in the list, and checkCollision reports a
\* collision only when a block of the list other than the one that asks
\* shares area with the path; the comparison with itself reports nothing.
C6_SelfExclusion ==
    \A b \in Blocks :
      LET P == SnappedPos(b)
          thisPath == Candidate(b)
      IN  /\ ~CollidesWith(b, b, thisPath, P)
          /\ checkCollision(b, thisPath, P) =>
               \E k \in 1..Len(m_pListBlocks) :
                  /\ Other(b, m_pListBlocks[k])
                  /\ SharesArea(thisPath, Peer(b, m_pListBlocks[k]))

\* a block of the list, whose path shares area with itself, was released
\* and no collision was reported
C6_Witness ==
    /\ lastBlock \in Blocks
    /\ \E k \in 1..Len(m_pListBlocks) : m_pListBlocks[k] = lastBlock
    /\ SharesArea(ThisPath(lastBlock, pos), ThisPath(lastBlock, pos))
    /\ emitted = <<"incrementMoves", "checkPuzzleSolved">>

\* a step is a press, a wheel step or a release handled by block b
GestureStep(b) ==
    \/ \E button \in Buttons : mousePressEvent(b, button)
    \/ \E o \in Orientations, d \in Deltas : wheelEvent(b, o, d)
    \/ \E button \in Buttons : mouseReleaseEvent(b, button)

\* C7: a press, release or wheel gesture handled by a barrier leaves its
\* position, shape, z value and pressed flag as they are and emits nothing.
C7_BarrierImmutable ==
    [][ \A b \in Blocks :
          (m_bBarrier[b] /\ GestureStep(b)) =>
             /\ pos'[b] = pos[b]
             /\ m_PolyShape'[b] = m_PolyShape[b]
             /\ zValue'[b] = zValue[b]
             /\ m_bMousePressed'[b] = m_bMousePressed[b]
             /\ emitted' = <<>> ]_vars

\* a barrier has handled a gesture and is as it was built
C7_Witness ==
    /\ lastBlock \in Blocks
    /\ m_bBarrier[lastBlock]
    /\ m_PolyShape[lastBlock] = ShapeSquare
    /\ ~m_bMousePressed[lastBlock]

\* C8: flipping the shape of any block twice gives back its sequence of
\* points, wherever its bounding rectangle lies.
C8_FlipInvolution ==
    \A b \in Blocks : Flip(Flip(m_PolyShape[b])) = m_PolyShape[b]

\* a shape whose bounding rectangle is not at the origin has been flipped
C8_Witness ==
    /\ m_PolyShape[1] = Flip(ShapeLOffset)
    /\ boundingRect(m_PolyShape[1]).x # 0

\* n wheel rotations of a shape in the direction of delta
RECURSIVE RotatedTimes(_, _, _)
RotatedTimes(poly, delta, n) ==
    IF n = 0 THEN poly ELSE RotatedTimes(Rotated(poly, delta), delta, n - 1)

\* width and height of the bounding rectangle
Dims(poly) == LET r == boundingRect(poly) IN <<r.width, r.height>>
Swapped(d) == <<d[2], d[1]>>

\* C9: four wheel rotations in one direction give back the shape of any
\* block; width and height of its bounding rectangle are swapped after one
\* and three rotations and as at first after two and four.
C9_RotationCycle ==
    \A s \in {m_PolyShape[b] : b \in Blocks} : \A d \in Deltas :
      LET r1 == RotatedTimes(s, d, 1)
          r2 == RotatedTimes(r1, d, 1)
          r3 == RotatedTimes(r2, d, 1)
          r4 == RotatedTimes(r3, d, 1)
      IN  /\ r4 = s
          /\ Dims(r1) = Swapped(Dims(s))
          /\ Dims(r2) = Dims(s)
          /\ Dims(r3) = Swapped(Dims(s))
          /\ Dims(r4) = Dims(s)

\* a shape that is higher than wide has been rotated and is wider than high
C9_Witness ==
    /\ \E d \in Deltas : m_PolyShape[1] = Rotated(ShapeLOffset, d)
    /\ Dims(m_PolyShape[1]) = <<3, 2>>

\* C10: for the position p of any block and any grid size, snapToGrid of
\* snapToGrid(p) is snapToGrid(p), whose coordinates are multiples of the
\* grid size.
C10_SnapIdempotent ==
    \A b \in Blocks : \A g \in 1..(MaxGrid + 1) :
      LET s == snapToGrid(pos[b], g)
      IN  /\ snapToGrid(s, g) = s
          /\ s[1] % g = 0
          /\ s[2] % g = 0

\* a block is dragged to a position between grid points, half a cell left
\* of the scene
C10_Witness ==
    \E b \in Blocks :
      /\ m_bMousePressed[b]
      /\ pos[b][1] < 0
      /\ snapToGrid(pos[b], m_nGrid[b]) # pos[b]

\* a block of the list whose id differs from b's and whose path, at its
\* place on the board, shares area with thisPath
OverlappingPeer(b, thisPath, P) ==
    \E k \in 1..Len(m_pListBlocks) :
       /\ m_nID[m_pListBlocks[k]] # m_nID[b]
       /\ SharesArea(thisPath, CollidingPath(b, m_pListBlocks[k], P))

\* C11: the collision check a Left release of a non-barrier block makes
\* returns true if and only if a block of the list with another id shares
\* area with the path of the released block (so the test collidesWithItem
\* hides no such block), the reset follows exactly then, and the check
\* leaves the position it found, all shapes, all z values and the pressed
\* flags and positions of the other blocks as they are.
C11_CollisionIffOverlap ==
    [][ \A b \in Blocks :
          LeftReleaseStep(b) =>
            /\ checkCollision(b, Candidate(b), SnappedPos(b))
                  <=> OverlappingPeer(b, Candidate(b), SnappedPos(b))
            /\ handled'[4].op = "setPos"
                  <=> OverlappingPeer(b, Candidate(b), SnappedPos(b))
            /\ handled'[3].op = "checkCollision"
            /\ handled'[3].at = handled'[2].at
            /\ m_PolyShape' = m_PolyShape
            /\ zValue' = zValue
            /\ \A j \in Blocks :
                 Other(b, j) => /\ pos'[j] = pos[j]
                                /\ m_bMousePressed'[j] = m_bMousePressed[j] ]_vars

\* on a grid of more than one pixel a release was reset because of a block
\* that comes later in the list than one the path does not share area with
C11_Witness ==
    /\ lastBlock \in Blocks
    /\ Len(handled) = 4
    /\ handled[4].op = "setPos"
    /\ m_nGrid[lastBlock] > 1
    /\ LET P == [pos EXCEPT ![lastBlock] = handled[3].at]
           thisPath == ThisPath(lastBlock, P)
       IN  \E k \in 2..Len(m_pListBlocks) :
              /\ m_pListBlocks[k] # lastBlock
              /\ SharesArea(thisPath, CollidingPath(lastBlock, m_pListBlocks[k], P))
              /\ \E i \in 1..(k - 1) :
                    /\ m_pListBlocks[i] # lastBlock
                    /\ ~SharesArea(thisPath, CollidingPath(lastBlock, m_pListBlocks[i], P))

\* a step is a Left press handled by the non-barrier block b
LeftPressStep(b) == ~m_bBarrier[b] /\ mousePressEvent(b, "Left")

\* C12: right after a Left press on a non-barrier block its z value is the
\* size of the list plus 2 and greater than the z value of every other
\* block, none of which is below 1.
C12_PressedBlockOnTop ==
    [][ \A b \in Blocks :
          LeftPressStep(b) =>
            /\ zValue'[b] = Len(m_pListBlocks) + 2
            /\ \A j \in Blocks :
                 Other(b, j) => /\ zValue'[j] < zValue'[b]
                                /\ zValue'[j] >= 1 ]_vars

\* a block is pressed while the block that was on top before it is one
\* step below it and a block that was never pressed is at the floor
C12_Witness ==
    \E b \in Blocks :
      /\ m_bMousePressed[b]
      /\ lastBlock = b
      /\ zValue[b] = Len(m_pListBlocks) + 2
      /\ \E j \in Blocks : Other(b, j) /\ zValue[j] = Len(m_pListBlocks) + 1
      /\ \E j \in Blocks : Other(b, j) /\ zValue[j] = 1

\* a step is a Right press, a wheel step or a call of rescaleBlock handled
\* by block b
OtherStep(b) ==
    \/ mousePressEvent(b, "Right")
    \/ \E o \in Orientations, d \in Deltas : wheelEvent(b, o, d)
    \/ \E nNewScale \in 1..MaxGrid : rescaleBlock(b, nNewScale)

\* C13: m_bMousePressed of every block is false after construction; that of
\* a non-barrier block turns true on a Left press of it and by nothing
\* else, turns false on a Left release of it and by nothing else, and is
\* left alone by a Right press, a wheel step and rescaleBlock; that of a
\* barrier is false in every reachable state.
C13_DragStateMachine ==
    /\ \A b \in Blocks : ~m_bMousePressed[b]
    /\ [](\A b \in Blocks : m_bBarrier[b] => ~m_bMousePressed[b])
    /\ [][ \A b \in Blocks :
             /\ m_bMousePressed'[b] \/ ~LeftPressStep(b)
             /\ (~m_bMousePressed[b] /\ m_bMousePressed'[b]) => LeftPressStep(b)
             /\ ~m_bMousePressed'[b] \/ ~LeftReleaseStep(b)
             /\ (m_bMousePressed[b] /\ ~m_bMousePressed'[b]) => LeftReleaseStep(b)
             /\ m_bMousePressed' = m_bMousePressed \/ ~OtherStep(b) ]_vars

\* a block is being dragged and was rescaled since its press: the position
\* of the press is between the points of its grid
C13_Witness ==
    \E b \in Blocks :
      /\ m_bMousePressed[b]
      /\ lastBlock = b
      /\ m_nGrid[b] > 1
      /\ posAtPress[b] # snapToGrid(posAtPress[b], m_nGrid[b])

\* the signals among the entries of a trace, in order
RECURSIVE SignalsOf(_)
SignalsOf(trace) ==
    IF trace = <<>> THEN <<>>
    ELSE IF Head(trace).op \in {"incrementMoves", "checkPuzzleSolved"}
         THEN <<Head(trace).op>> \o SignalsOf(Tail(trace))
         ELSE SignalsOf(Tail(trace))

\* C14: a Left release of a non-barrier block first sets the position
\* snapped to the grid, then emits incrementMoves, then makes the collision
\* check, which sees the snapped position and gives what checkCollision
\* gives there, and only then resets the position or emits
\* checkPuzzleSolved.
C14_ReleaseOrder ==
    [][ \A b \in Blocks :
          LeftReleaseStep(b) =>
            LET snapped == snapToGrid(pos[b], m_nGrid[b])
                P == [pos EXCEPT ![b] = snapped]
                collides == checkCollision(b, ThisPath(b, P), P)
            IN  /\ Len(handled') = 4
                /\ handled'[1] = [op |-> "setPos", at |-> snapped]
                /\ handled'[2] = [op |-> "incrementMoves", at |-> snapped]
                /\ handled'[3] = [op |-> "checkCollision", at |-> snapped]
                /\ handled'[4].op = (IF collides THEN "setPos" ELSE "checkPuzzleSolved")
                /\ handled'[4].at = pos'[b]
                /\ SignalsOf(handled') = emitted' ]_vars

\* on a grid of more than one pixel a release was reset after a check at
\* another position than the one the block is back at
C14_Witness ==
    /\ lastBlock \in Blocks
    /\ Len(handled) = 4
    /\ handled[4].op = "setPos"
    /\ handled[3].at # pos[lastBlock]
    /\ m_nGrid[lastBlock] > 1
    /\ emitted = <<"incrementMoves">>

\* a polygon turned by a quarter (a = 90 takes (x, y) to (-y, x), a = -90
\* to (y, -x)) and then moved by (dx, dy), point by point
Turned(poly, a, dx, dy) ==
    [i \in DOMAIN poly |->
        IF a = 90 THEN <<dx - poly[i][2], dy + poly[i][1]>>
                  ELSE <<dx + poly[i][2], dy - poly[i][1]>>]

\* a step is a wheel step of the given orientation and delta handled by the
\* non-barrier block b
WheelStep(b, o, d) == ~m_bBarrier[b] /\ wheelEvent(b, o, d)

\* C15 as amended: a vertical wheel step on a non-barrier block turns the
\* shape by +90 degrees and moves it by the height of its bounding
\* rectangle along X (delta < 0), or turns it by -90 degrees and moves it by
\* the width along Y (delta >= 0); a horizontal wheel step changes nothing.
C15_WheelTurnAndMoveBack ==
    [][ \A b \in Blocks : \A d \in Deltas :
          LET r == boundingRect(m_PolyShape[b])
          IN  /\ WheelStep(b, "Vertical", d) =>
                   m_PolyShape'[b] = (IF d < 0
                                      THEN Turned(m_PolyShape[b], 90, r.height, 0)
                                      ELSE Turned(m_PolyShape[b], 0 - 90, 0, r.width))
              /\ WheelStep(b, "Horizontal", d) =>
                   UNCHANGED <<m_PolyShape, pos, zValue, m_bMousePressed,
                               m_posBlockSelected, m_nGrid>> ]_vars

\* the L, higher than wide, was turned by +90 degrees and moved along X
C15_Witness ==
    /\ lastBlock = 1
    /\ m_PolyShape[1] = Turned(ShapeL, 90, boundingRect(ShapeL).height, 0)
    /\ boundingRect(ShapeL).height # boundingRect(ShapeL).width

\* C15 as stated: the vertical wheel step that turns by -90 degrees moves
\* the shape by the height along X, the one that turns by +90 degrees moves
\* it by the width along Y.
C15_AsStated ==
    [][ \A b \in Blocks : \A d \in Deltas :
          LET r == boundingRect(m_PolyShape[b])
          IN  WheelStep(b, "Vertical", d) =>
                m_PolyShape'[b] \in {Turned(m_PolyShape[b], 0 - 90, r.height, 0),
                                     Turned(m_PolyShape[b], 90, 0, r.width)} ]_vars

\* a step is a press of the right button handled by the non-barrier block b
RightPressStep(b) == ~m_bBarrier[b] /\ mousePressEvent(b, "Right")

\* C16: a press of the right button on a non-barrier block changes the shape
\* of that block and nothing else: its pos(), its m_posBlockSelected, its
\* m_bMousePressed, the z value of every block and the shape and pos() of
\* every other block stay as they were, and no signal is emitted.
C16_FlipChangesOnlyTheShape ==
    [][ \A b \in Blocks :
          RightPressStep(b) =>
            /\ m_PolyShape'[b] = Flip(m_PolyShape[b])
            /\ pos'[b] = pos[b]
            /\ m_posBlockSelected'[b] = m_posBlockSelected[b]
            /\ m_bMousePressed'[b] = m_bMousePressed[b]
            /\ zValue' = zValue
            /\ \A j \in Blocks \ {b} : /\ m_PolyShape'[j] = m_PolyShape[j]
                                       /\ pos'[j] = pos[j]
            /\ emitted' = <<>>
            /\ handled' = <<>> ]_vars

\* the L was flipped while it was being dragged away from where it was
\* pressed, above blocks that already have a z value
C16_Witness ==
    /\ lastBlock = 1
    /\ ~m_bBarrier[1]
    /\ m_PolyShape[1] = Flip(ShapeL)
    /\ m_bMousePressed[1]
    /\ pos[1] # m_posBlockSelected[1]
    /\ emitted = <<>>

\* C17: setNewZValue(nZ) with a negative nZ makes the z value
\* max(1, old - 1), one less but never below 1, and with a non-negative nZ
\* makes it nZ; so for the call on a single block and for each call of the
\* loop a left press runs over the list.
C17_NewZValue ==
    [][ /\ \A b \in Blocks : \A nZ \in StackingValues :
              setNewZValueCall(b, nZ) =>
                /\ zValue'[b] = (IF nZ < 0 THEN Max2(1, zValue[b] - 1) ELSE nZ)
                /\ nZ < 0 => zValue'[b] >= 1 /\ zValue'[b] >= zValue[b] - 1
                /\ \A j \in Blocks \ {b} : zValue'[j] = zValue[j]
        /\ \A b \in Blocks :
              LeftPressStep(b) =>
                \A j \in Blocks \ {b} : zValue'[j] = Max2(1, zValue[j] - 1) ]_vars

\* setNewZValue has left a block at a z value above the floor, and the loop
\* of a left press has raised another block from 0 to the floor
C17_Witness ==
    /\ lastBlock \in Stackable
    /\ handled = <<>> /\ emitted = <<>>
    /\ zValue[lastBlock] = 2
    /\ \E j \in Blocks \ {lastBlock} : zValue[j] = 1

\* pos() of block b is a multiple of its grid size on both axes
Aligned(b) == \A i \in 1..2 : pos[b][i] % m_nGrid[b] = 0

\* C18: rescaleBlock(nNewScale) on a block whose pos() is a multiple of its
\* grid size keeps the cell the block is on (pos() / m_nGrid is the same
\* before and after), makes m_nGrid nNewScale and leaves pos() a multiple
\* of nNewScale; rescaling back to the old grid size then gives the old
\* pos() again.
C18_RescaleKeepsTheCell ==
    [][ \A b \in Blocks : \A nNewScale \in 1..MaxGrid :
          (Aligned(b) /\ rescaleBlock(b, nNewScale)) =>
            /\ m_nGrid'[b] = nNewScale
            /\ \A i \in 1..2 :
                  /\ pos'[b][i] % nNewScale = 0
                  /\ pos'[b][i] \div nNewScale = pos[b][i] \div m_nGrid[b]
            /\ RescaledPos(pos'[b], m_nGrid'[b], m_nGrid[b]) = pos[b] ]_vars

\* a block that stands away from the origin, on a cell of a grid wider than
\* a pixel, was rescaled from another grid size
C18_Witness ==
    /\ lastBlock \in Rescalable
    /\ handled = <<>> /\ emitted = <<>>
    /\ m_nGrid[lastBlock] > 1
    /\ \E j \in Blocks \ {lastBlock} : m_nGrid[j] # m_nGrid[lastBlock]
    /\ Aligned(lastBlock)
    /\ pos[lastBlock] # <<0, 0>>
    /\ ~m_bMousePressed[lastBlock]

\* no block is being dragged
AtRest == \A b \in Blocks : ~m_bMousePressed[b]

\* C19: from a start on which every pos() is on the grid and no two blocks
\* with different ids share area, after any presses, moves, releases, flips
\* and wheel rotations of non-barrier blocks no two blocks with different
\* ids share area in any state in which no block is being dragged.
C19_NoOverlapAtRest ==
    AtRest => \A b \in Blocks : ~OverlappingPeer(b, ThisPath(b, pos), pos)

\* the bounding rectangle of the polygon has its top left corner at (0, 0)
AtOrigin(poly) == boundingRect(poly).x = 0 /\ boundingRect(poly).y = 0

\* C20: a shape whose bounding rectangle has its top left corner at (0, 0)
\* keeps it there through every flip and every wheel rotation, in any
\* order; each step leaves width and height as they are or swaps them, and
\* a flip leaves the whole bounding rectangle as it is.
C20_ShapeStaysAnchored ==
    [][ \A b \in Blocks :
          AtOrigin(m_PolyShape[b]) =>
            /\ AtOrigin(m_PolyShape'[b])
            /\ Dims(m_PolyShape'[b]) \in {Dims(m_PolyShape[b]),
                                          Swapped(Dims(m_PolyShape[b]))}
            /\ RightPressStep(b) =>
                  boundingRect(m_PolyShape'[b]) = boundingRect(m_PolyShape[b])
            /\ (\E d \in Deltas : WheelStep(b, "Vertical", d)) =>
                  Dims(m_PolyShape'[b]) = Swapped(Dims(m_PolyShape[b])) ]_vars

\* the L that started at the origin has been flipped and turned: it lies on
\* its side, at the origin
C20_Witness ==
    /\ lastBlock = 1
    /\ \E d \in Deltas : m_PolyShape[1] = Rotated(Flip(ShapeL), d)
    /\ AtOrigin(m_PolyShape[1])
    /\ Dims(m_PolyShape[1]) = Swapped(Dims(ShapeL))
    /\ Dims(ShapeL) # Swapped(Dims(ShapeL))

====
